---- MODULE Spec2Model ----
(***************************************************************************)
(* A model of profile-manager (src/pm.py): the module globals ROOT_PATH    *)
(* and DB, the files on disk that hold the two peewee tables               *)
(* (AWSCredential and Audit), and the commands of class ProfileManager.    *)
(* One process at a time runs: it is launched with an environment          *)
(* (PROFILE_MANAGER_PATH and the platform name), runs __init__             *)
(* (resolve_user_path, then check_db), then commands, then exits.  The     *)
(* files outlive the process; the globals do not.                          *)
(***************************************************************************)
EXTENDS Integers, Sequences, FiniteSets, TLC

\* ------------------------------------------------------------------ bounds

\* The most rows the AWSCredential tables of all stores hold together.
MaxRows == 2

\* ------------------------------------------------------------ input domains

\* Python's None.  No input set below contains this string.
None == "None"

\* Profile names, keys, secrets and regions a user passes or types.
Names == {"work", "personal"}
Keys == {"K1", "K2"}
Secrets == {"S"}
Regions == {"us-east-1"}

\* Readings of datetime.now(), in seconds.
Times == {100}

\* Values of the environment variable PROFILE_MANAGER_PATH: unset, set to the
\* empty string, set to a directory.
EnvValues == {None, "", "/r1/"}

\* Results of platform.system(); "Java" is one the table p does not list.
Systems == {"Linux", "Darwin", "Windows", "Java"}

\* --------------------------------------------------------------- the state

VARIABLES
    ROOT_PATH,  \* the global ROOT_PATH (None until resolved)
    DB,         \* the global DB: None, or the path of the connected database
    pc,         \* "off", "resolved" (resolve_user_path returned), "running"
    dirs,       \* the database paths whose parent directory exists
    files,      \* database path -> NoFile, or the two tables
    last        \* the last call: its name, arguments and outcome

vars == <<ROOT_PATH, DB, pc, dirs, files, last>>

\* The table p of resolve_user_path.
PlatformDefault ==
    [Linux |-> "~/.profile-manager/",
     Darwin |-> "~/.profile-manager/",
     Windows |-> "%%userprofile%%\\AppData\\Local\\profile-manager\\"]

\* db_path of check_db.
DbPath(root) == root \o "profile-manager.sqlite"

\* The database paths a process of the model can compute.
Paths == {DbPath("/r1/")} \cup {DbPath(PlatformDefault[s]) : s \in DOMAIN PlatformDefault}

NoFile == [exists |-> FALSE]

\* The file DB.create_tables leaves: both tables, empty.
EmptyStore == [exists |-> TRUE, AWSCredential |-> <<>>, Audit |-> <<>>]

\* The rows of all AWSCredential tables on disk.
TotalRows ==
    LET RECURSIVE Sum(_)
        Sum(S) == IF S = {} THEN 0
                  ELSE LET p == CHOOSE q \in S : TRUE
                       IN (IF files[p].exists THEN Len(files[p].AWSCredential) ELSE 0)
                          + Sum(S \ {p})
    IN Sum(Paths)

Init ==
    /\ ROOT_PATH = None
    /\ DB = None
    /\ pc = "off"
    /\ dirs \in SUBSET Paths
    /\ files = [p \in Paths |-> NoFile]
    /\ last = [op |-> "none", status |-> "ok"]

\* ------------------------------------------------------- the path resolver

\* A variant of resolve_user_path that looks the platform up before it
\* reads the override.
resolve_user_path_platform_first(custom_path, sys) ==
    IF sys \notin DOMAIN PlatformDefault
    THEN [status |-> "KeyError", ROOT_PATH |-> None]
    ELSE IF custom_path # None /\ custom_path # ""
         THEN [status |-> "ok", ROOT_PATH |-> custom_path]
         ELSE [status |-> "ok", ROOT_PATH |-> PlatformDefault[sys]]

\* resolve_user_path: the value it leaves in ROOT_PATH, or the KeyError of
\* p[platform.system()].  `if custom_path:` is false for None and for "".
resolve_user_path(custom_path, sys) ==
    IF custom_path # None /\ custom_path # ""
    THEN [status |-> "ok", ROOT_PATH |-> custom_path]
    ELSE IF sys \in DOMAIN PlatformDefault
         THEN [status |-> "ok", ROOT_PATH |-> PlatformDefault[sys]]
         ELSE [status |-> "KeyError", ROOT_PATH |-> None]

\* A process is launched with PROFILE_MANAGER_PATH = e (None: unset) on
\* platform s; __init__ calls resolve_user_path.  An exception ends the
\* process.
Launch(e, s) ==
    /\ pc = "off"
    /\ LET r == resolve_user_path(e, s)
       IN /\ last' = [op |-> "resolve_user_path", custom_path |-> e, system |-> s,
                      status |-> r.status]
          /\ IF r.status = "ok"
             THEN /\ pc' = "resolved"
                  /\ ROOT_PATH' = r.ROOT_PATH
             ELSE /\ pc' = "off"
                  /\ UNCHANGED ROOT_PATH
    /\ UNCHANGED <<DB, dirs, files>>

\* ------------------------------------------------------ the store lifecycle

\* DB.create_tables([AWSCredential, Audit]) on the file just opened: CREATE
\* TABLE IF NOT EXISTS, so tables that exist keep their rows.
create_tables(file) ==
    IF file.exists THEN file ELSE EmptyStore

\* sqlite can open (and create) a database file only in a directory that
\* exists; neither check_db nor make_db creates one.
CanOpen(db_path) == db_path \in dirs

\* check_db, with make_db when os.path.exists(db_path) is false.
check_db ==
    /\ pc = "resolved"
    /\ LET db_path == DbPath(ROOT_PATH)
           fresh == ~files[db_path].exists
       IN IF CanOpen(db_path)
          THEN /\ files' = IF fresh
                           THEN [files EXCEPT ![db_path] = create_tables(@)]
                           ELSE files
               /\ DB' = db_path
               /\ pc' = "running"
               /\ last' = [op |-> "check_db", db_path |-> db_path, fresh |-> fresh,
                           status |-> "ok"]
               /\ UNCHANGED ROOT_PATH
          ELSE /\ pc' = "off"
               /\ ROOT_PATH' = None
               /\ DB' = None
               /\ last' = [op |-> "check_db", db_path |-> db_path, fresh |-> fresh,
                           status |-> "OperationalError"]
               /\ UNCHANGED files
    /\ UNCHANGED dirs

\* The process ends: its globals are gone, the files stay.
Exit ==
    /\ pc = "running"
    /\ pc' = "off"
    /\ ROOT_PATH' = None
    /\ DB' = None
    /\ last' = [op |-> "exit", status |-> "ok"]
    /\ UNCHANGED <<dirs, files>>

\* ------------------------------------------------------------- the tables

\* The columns of AWSCredential, all NOT NULL (peewee's default).
Columns ==
    {"profile", "profile_type", "key", "secret", "region", "created",
     "last_activated", "is_active"}

\* A variant of audit that keeps only the newest event.
audit_overwrite(file, timestamp, profile, action, type) ==
    [file EXCEPT !.Audit =
        <<[timestamp |-> timestamp, profile |-> profile,
           profile_type |-> type, action |-> action]>>]

\* Audit.create(...); new.save(): one row appended to the Audit table.
audit(file, timestamp, profile, action, type) ==
    [file EXCEPT !.Audit =
        Append(@, [timestamp |-> timestamp, profile |-> profile,
                   profile_type |-> type, action |-> action])]

\* AWSCredential.create(**res); new.save(): one row appended.
create(file, res) ==
    [file EXCEPT !.AWSCredential = Append(@, res)]

\* A variant of res_defaults in which a new profile starts active.
res_defaults_active(created) ==
    [is_active |-> TRUE, last_activated |-> -1, created |-> created,
     profile_type |-> "AWS"]

\* The dictionary res of add before the loop over the arguments.
res_defaults(created) ==
    [is_active |-> FALSE, last_activated |-> -1, created |-> created,
     profile_type |-> "AWS"]

\* res after the loop: an argument that is None is asked for (typed[k]); an
\* argument that was passed is not put into res.
collect(created, args, typed) ==
    LET d == res_defaults(created)
        asked == {k \in DOMAIN args : args[k] = None}
    IN [k \in DOMAIN d \cup asked |-> IF k \in asked THEN typed[k] ELSE d[k]]

\* ------------------------------------------------------------ the commands

ArgNames == {"profile", "key", "secret", "region"}

\* The values a user can mean a new profile to have.
Values == [profile : Names, key : Keys, secret : Secrets, region : Regions]

\* The call add makes of meant when the caller passes the arguments in
\* passed, and the answers the user then types at the prompts.
Args(meant, passed) ==
    [k \in ArgNames |-> IF k \in passed THEN meant[k] ELSE None]

Typed(meant, passed) ==
    [k \in ArgNames \ passed |-> meant[k]]

\* add(profile, key, secret, region) at time created, the prompts answered
\* with typed.  A column missing from res makes the INSERT fail (NOT NULL
\* constraint, peewee.IntegrityError) before anything is written.
add(args, typed, created) ==
    /\ pc = "running"
    /\ LET res == collect(created, args, typed)
       IN IF DOMAIN res = Columns
          THEN /\ TotalRows < MaxRows
               /\ files' = [files EXCEPT ![DB] =
                               audit(create(@, res), res.created, res.profile,
                                     "CREATE_PROFILE", "AWS")]
               /\ last' = [op |-> "add", args |-> args, typed |-> typed,
                           status |-> "ok"]
          ELSE /\ files' = files
               /\ last' = [op |-> "add", status |-> "IntegrityError"]
    /\ UNCHANGED <<ROOT_PATH, DB, pc, dirs>>

\* set(profile): returns its argument.
set(profile) ==
    /\ pc = "running"
    /\ last' = [op |-> "set", profile |-> profile, status |-> "ok"]
    /\ UNCHANGED <<ROOT_PATH, DB, pc, dirs, files>>

\* A variant of unset that records a DEACTIVATE_PROFILE event whether or not
\* a profile is active.
unset_always_records ==
    /\ pc = "running"
    /\ files' = [files EXCEPT ![DB] =
                    [@ EXCEPT !.Audit =
                        Append(@, [timestamp |-> 100, profile |-> "",
                                   profile_type |-> "AWS",
                                   action |-> "DEACTIVATE_PROFILE"])]]
    /\ last' = [op |-> "unset", status |-> "ok"]
    /\ UNCHANGED <<ROOT_PATH, DB, pc, dirs>>

\* unset(): returns 'unset'.
unset ==
    /\ pc = "running"
    /\ last' = [op |-> "unset", status |-> "ok"]
    /\ UNCHANGED <<ROOT_PATH, DB, pc, dirs, files>>

\* rm(profile): returns 'rm'.
rm(profile) ==
    /\ pc = "running"
    /\ last' = [op |-> "rm", profile |-> profile, status |-> "ok"]
    /\ UNCHANGED <<ROOT_PATH, DB, pc, dirs, files>>

\* config(): returns 'config'.
config ==
    /\ pc = "running"
    /\ last' = [op |-> "config", status |-> "ok"]
    /\ UNCHANGED <<ROOT_PATH, DB, pc, dirs, files>>

\* The line ls prints for one row of AWSCredential.select().
Line(p) ==
    <<p.profile, p.profile_type, p.created, p.last_activated, p.is_active>>

\* ls(): prints one line per row, in the table's order.
ls ==
    /\ pc = "running"
    /\ LET profiles == files[DB].AWSCredential
       IN last' = [op |-> "ls", status |-> "ok",
                   printed |-> [i \in 1..Len(profiles) |-> Line(profiles[i])]]
    /\ UNCHANGED <<ROOT_PATH, DB, pc, dirs, files>>

Next ==
    \/ \E e \in EnvValues, s \in Systems : Launch(e, s)
    \/ check_db
    \/ Exit
    \/ \E meant \in Values, passed \in SUBSET ArgNames, created \in Times :
          add(Args(meant, passed), Typed(meant, passed), created)
    \/ \E profile \in Names : set(profile)
    \/ unset
    \/ \E profile \in Names : rm(profile)
    \/ config
    \/ ls

Spec == Init /\ [][Next]_vars

\* ============================================================== the claims

\* The tables of the store the running process is connected to.
Profiles == files[DB].AWSCredential
Events == files[DB].Audit

\* The rows of a table of profiles that carry a name, and the first of them
\* (the row a lookup by name returns).
Named(rows, name) == {i \in DOMAIN rows : rows[i].profile = name}
HasName(rows, name) == Named(rows, name) # {}
FindByName(rows, name) ==
    rows[CHOOSE i \in Named(rows, name) : \A j \in Named(rows, name) : i <= j]

Active(rows) == {i \in DOMAIN rows : rows[i].is_active}

IsPrefix(a, b) == Len(a) <= Len(b) /\ SubSeq(b, 1, Len(a)) = a

\* b is a with exactly one event appended, of the given action and profile.
OneMore(a, b, action, name) ==
    /\ Len(b) = Len(a) + 1
    /\ IsPrefix(a, b)
    /\ b[Len(b)].action = action
    /\ b[Len(b)].profile = name

\* The values of a successful add: all four were typed at the prompts or
\* passed as arguments.
Given(l) ==
    [k \in ArgNames |-> IF l.args[k] = None THEN l.typed[k] ELSE l.args[k]]

\* ---- C1
\* C1: in every reachable state, every store holds at most one profile with
\* is_active = true.
C1_AtMostOneActive ==
    \A p \in Paths :
        files[p].exists => Cardinality(Active(files[p].AWSCredential)) <= 1

\* Two profiles are stored and set has just been called on one of them.
C1_Witness ==
    /\ pc = "running"
    /\ last.op = "set"
    /\ Len(Profiles) >= 2
    /\ HasName(Profiles, last.profile)

\* ---- C2
\* C2: profile names are unique: an add of a name that is already stored
\* fails and writes nothing, so no store ever holds two profiles of one name.
C2_NamesUnique ==
    \A p \in Paths :
        files[p].exists =>
            \A i, j \in DOMAIN files[p].AWSCredential :
                files[p].AWSCredential[i].profile = files[p].AWSCredential[j].profile
                    => i = j

\* ---- C3
\* C3: every successful add, rm and set appends exactly one audit event, of
\* action CREATE_PROFILE, REMOVE_PROFILE and ACTIVATE_PROFILE and of the
\* profile the call acted on; every failed call appends none.
C3_AuditComplete ==
    [][(pc = "running" /\ pc' = "running") =>
        LET a == files[DB].Audit
            b == files'[DB].Audit
        IN CASE last'.status # "ok" -> b = a
             [] last'.op = "add" -> OneMore(a, b, "CREATE_PROFILE", Given(last').profile)
             [] last'.op = "rm" -> OneMore(a, b, "REMOVE_PROFILE", last'.profile)
             [] last'.op = "set" -> OneMore(a, b, "ACTIVATE_PROFILE", last'.profile)
             [] OTHER -> TRUE]_vars

\* ---- C4
\* C4: after a successful add, the profile found under the added name has
\* exactly the name, key, secret and region of the call, and kind "AWS".
C4_AddRoundTrip ==
    (pc = "running" /\ last.op = "add" /\ last.status = "ok") =>
        LET g == Given(last)
            r == FindByName(Profiles, g.profile)
        IN /\ HasName(Profiles, g.profile)
           /\ r.profile = g.profile
           /\ r.key = g.key
           /\ r.secret = g.secret
           /\ r.region = g.region
           /\ r.profile_type = "AWS"

\* ---- C5
\* C5: after set(name) on a stored profile that profile is active, its
\* last_activated is no longer the sentinel -1, and no other profile is
\* active; set on a name that is not stored fails.
C5_SetActivates ==
    (pc = "running" /\ last.op = "set") =>
        IF HasName(Profiles, last.profile)
        THEN /\ last.status = "ok"
             /\ \A i \in DOMAIN Profiles :
                    Profiles[i].is_active <=> Profiles[i].profile = last.profile
             /\ FindByName(Profiles, last.profile).last_activated # -1
        ELSE last.status # "ok"

C7_RmRemoves ==
    [][(pc = "running" /\ last'.op = "rm") =>
        LET rows == files[DB].AWSCredential
            after == files'[DB].AWSCredential
            name == last'.profile
        IN IF HasName(rows, name)
           THEN /\ ~HasName(after, name)
                /\ (FindByName(rows, name).is_active => Active(after) = {})
           ELSE /\ last'.status # "ok"
                /\ files' = files]_vars

\* ---- C8
\* C8: the audit log of every store only grows: across every command and
\* every restart, the log of a later state has the log of the earlier state
\* as a prefix, and a store once created stays.
C8_AuditAppendOnly ==
    [][\A p \in Paths :
        files[p].exists =>
            /\ files'[p].exists
            /\ IsPrefix(files[p].Audit, files'[p].Audit)]_vars

\* A later process has opened a store that an earlier one left, and finds
\* its two events.
C8_Witness ==
    /\ pc = "running"
    /\ last.op = "check_db"
    /\ ~last.fresh
    /\ Len(Events) >= 2

\* ---- C9
\* C9: opening the store when the database file does not exist creates the
\* missing directories, the file and both tables, empty; when the file
\* exists it is opened as it is, with everything earlier runs wrote.
C9_StoreLifecycle ==
    [][(pc = "resolved" /\ last'.op = "check_db") =>
        LET p == DbPath(ROOT_PATH)
        IN /\ last'.status = "ok"
           /\ pc' = "running"
           /\ DB' = p
           /\ p \in dirs'
           /\ IF files[p].exists
              THEN files' = files
              ELSE /\ files'[p].exists
                   /\ files'[p].AWSCredential = <<>>
                   /\ files'[p].Audit = <<>>
                   /\ \A q \in Paths \ {p} : files'[q] = files[q]]_vars

\* ---- C10
\* The root the spec gives each supported platform.
ExpectedDefault(sys) ==
    CASE sys = "Linux" -> "~/.profile-manager/"
      [] sys = "Darwin" -> "~/.profile-manager/"
      [] sys = "Windows" -> "%%userprofile%%\\AppData\\Local\\profile-manager\\"

\* What C10 asks of a launch, the override counting as set when IsSet holds.
Resolution(IsSet(_)) ==
    (pc = "off" /\ last'.op = "resolve_user_path") =>
        LET e == last'.custom_path
            sys == last'.system
        IN IF IsSet(e)
           THEN /\ last'.status = "ok"
                /\ ROOT_PATH' = e
           ELSE IF sys \in {"Linux", "Darwin", "Windows"}
                THEN /\ last'.status = "ok"
                     /\ ROOT_PATH' = ExpectedDefault(sys)
                ELSE /\ last'.status = "KeyError"
                     /\ pc' = "off"
                     /\ DB' = None
                     /\ files' = files

IsSetAtAll(e) == e # None
IsSetNonEmpty(e) == e # None /\ e # ""

\* C10 as claimed: if PROFILE_MANAGER_PATH is set, the root is exactly its
\* value on every platform; otherwise it is the platform's default; with no
\* override and no default, resolution fails and no store is opened.
C10_Original == [][Resolution(IsSetAtAll)]_vars

\* C10 as amended: the same, with an override that is set to the empty
\* string counting as not set.
C10_RootResolution == [][Resolution(IsSetNonEmpty)]_vars

\* An override was given on a platform without a default, and is the root.
C10_Witness ==
    /\ pc = "resolved"
    /\ last.op = "resolve_user_path"
    /\ last.custom_path = "/r1/"
    /\ last.system = "Java"
    /\ ROOT_PATH = "/r1/"

====
